---- MODULE Spec2Model ----
(***************************************************************************)
(* Model of earthquakes.py: the field accessors (get_magnitude,            *)
(* get_location, get_year), the aggregations (count_earthquakes,           *)
(* get_maximum, get_magnitudes_per_year) and the two series that           *)
(* plot_average_magnitude_per_year and plot_number_per_year hand to the    *)
(* plotting library.                                                       *)
(*                                                                         *)
(* Representation.                                                         *)
(*  - A JSON value of the feed is a tagged record: Num(n) for a number,    *)
(*    None for null.  A field that is absent from a JSON object is absent  *)
(*    from the DOMAIN of the record that models the object.                *)
(*  - Magnitudes are integers (tenths of a unit).                          *)
(*  - properties.time is an integer number of epoch milliseconds in the    *)
(*    feed.  TLC's integers are 32 bits wide, so the timestamp t is kept   *)
(*    as the pair d = t div 86400000, ms = t mod 86400000.                 *)
(*  - A Python exception is the outcome [status |-> "error", exc |-> ..]. *)
(*  - A dict is [keys |-> insertion-ordered sequence of keys,              *)
(*    vals |-> function from the keys to the values].                     *)
(***************************************************************************)
EXTENDS Integers, Sequences, FiniteSets

VARIABLES tz, data, op, result

vars == <<tz, data, op, result>>

(* ------------------------------ bounds --------------------------------- *)

\* longest "features" list the feed returns in the model
MaxLen == 3

(* ------------------------------ inputs --------------------------------- *)

Num(n) == [type |-> "number", value |-> n]

None == [type |-> "null"]

IsNumber(v) == v.type = "number"

\* properties.time of 2000-12-31T23:30:00.000Z (978305400000)
TimeA == [d |-> 11322, ms |-> 84600000]

\* properties.time of 2002-06-15T12:00:00.000Z (1024142400000)
TimeB == [d |-> 11853, ms |-> 43200000]

\* offsets (seconds east of UTC) of the local time zone of the machine
TimeZones == {0, 3600}

Geometry(lon) == [coordinates |-> <<lon, 50, 5>>]

Quake(mag, lon, time) ==
    [properties |-> [mag |-> mag, time |-> time], geometry |-> Geometry(lon)]

\* a feed item whose properties carry no "mag" key
QuakeNoMag(lon, time) ==
    [properties |-> [time |-> time], geometry |-> Geometry(lon)]

\* events of magnitude 1 or 2: two places at the first time, one at the second
WellFormedQuakes ==
    {Quake(Num(m), e[1], e[2]) :
        m \in {1, 2}, e \in {<<10, TimeA>>, <<20, TimeA>>, <<20, TimeB>>}}

\* and two malformed items: a null magnitude, and no magnitude at all
Quakes ==
    WellFormedQuakes \cup {Quake(None, 30, TimeB), QuakeNoMag(40, TimeA)}

SeqsUpTo(S, n) == UNION {[1..k -> S] : k \in 0..n}

\* what get_data may return: the answer of the web service parsed as it is,
\* a features list and a metadata count that the code never compares
Responses ==
    {[metadata |-> [count |-> c], features |-> f] :
        c \in 0..MaxLen, f \in SeqsUpTo(Quakes, MaxLen)}

(* --------------------------- outcomes ---------------------------------- *)

Raise(e) == [status |-> "error", exc |-> e]

Return(v) == [status |-> "ok", value |-> v]

IsOk(r) == r.status = "ok"

(* ------------------------- field accessors ----------------------------- *)

count_earthquakes(d) == d.metadata.count

get_magnitude(earthquake) ==
    IF "mag" \in DOMAIN earthquake.properties
    THEN Return(earthquake.properties.mag)
    ELSE Raise("KeyError")

get_location(earthquake) ==
    LET coordinates == earthquake.geometry.coordinates
    IN  <<coordinates[1], coordinates[2]>>

\* the calendar year of the day that is `days` days after 1970-01-01
YearOfDays(days) ==
    LET z == days + 719468
        era == z \div 146097
        doe == z - era * 146097
        yoe == (doe - doe \div 1460 + doe \div 36524 - doe \div 146096) \div 365
        doy == doe - (365 * yoe + yoe \div 4 - yoe \div 100)
        mp == (5 * doy + 2) \div 153
    IN  yoe + era * 400 + (IF mp < 10 THEN 0 ELSE 1)

\* date.fromtimestamp(timestamp/1000).year in the zone `zone`
YearInZone(earthquake, zone) ==
    LET timestamp == earthquake.properties.time
        seconds == timestamp.d * 86400 + timestamp.ms \div 1000
    IN  YearOfDays((seconds + zone) \div 86400)

\* get_year reads the local time zone of the machine it runs on
get_year(earthquake) == YearInZone(earthquake, tz)

(* ----------------------------- get_maximum ----------------------------- *)

\* MaxStep with the comparison turned round (< for >)
MaxStep_less(cur, item) ==
    LET magnitude == get_magnitude(item)
    IN  IF ~IsOk(magnitude) THEN magnitude
        ELSE IF ~IsNumber(magnitude.value) \/ ~IsNumber(cur.magnitude)
        THEN Raise("TypeError")
        ELSE IF magnitude.value.value < cur.magnitude.value
        THEN Return([magnitude |-> magnitude.value, location |-> get_location(item)])
        ELSE Return(cur)

\* MaxStep with a comparison that is not strict (>= for >)
MaxStep_geq(cur, item) ==
    LET magnitude == get_magnitude(item)
    IN  IF ~IsOk(magnitude) THEN magnitude
        ELSE IF ~IsNumber(magnitude.value) \/ ~IsNumber(cur.magnitude)
        THEN Raise("TypeError")
        ELSE IF magnitude.value.value >= cur.magnitude.value
        THEN Return([magnitude |-> magnitude.value, location |-> get_location(item)])
        ELSE Return(cur)

\* one iteration of the loop: cur is the running maximum and its location
MaxStep(cur, item) ==
    LET magnitude == get_magnitude(item)
    IN  IF ~IsOk(magnitude) THEN magnitude
        ELSE IF ~IsNumber(magnitude.value) \/ ~IsNumber(cur.magnitude)
        THEN Raise("TypeError")
        ELSE IF magnitude.value.value > cur.magnitude.value
        THEN Return([magnitude |-> magnitude.value, location |-> get_location(item)])
        ELSE Return(cur)

RECURSIVE MaxLoop(_, _, _)
MaxLoop(features, i, cur) ==
    IF i > Len(features) THEN Return(cur)
    ELSE LET step == MaxStep(cur, features[i])
         IN  IF IsOk(step) THEN MaxLoop(features, i + 1, step.value) ELSE step

\* get_maximum that starts from a default instead of the first element
get_maximum_default(d) ==
    MaxLoop(d.features, 1, [magnitude |-> Num(0), location |-> <<0, 0>>])

get_maximum(d) ==
    IF Len(d.features) = 0 THEN Raise("IndexError")
    ELSE LET first == get_magnitude(d.features[1])
         IN  IF ~IsOk(first) THEN first
             ELSE MaxLoop(d.features, 1,
                          [magnitude |-> first.value,
                           location |-> get_location(d.features[1])])

(* ----------------------- get_magnitudes_per_year ----------------------- *)

Range(s) == {s[i] : i \in 1..Len(s)}

EmptyDict == [keys |-> << >>, vals |-> << >>]

HasKey(dict, k) == k \in Range(dict.keys)

\* DictAppend that inserts at the front: dict[k].insert(0, v)
DictAppend_prepend(dict, k, v) ==
    [keys |-> dict.keys, vals |-> [dict.vals EXCEPT ![k] = <<v>> \o @]]

\* dict[k].append(v)
DictAppend(dict, k, v) ==
    [keys |-> dict.keys, vals |-> [dict.vals EXCEPT ![k] = Append(@, v)]]

\* dict[k] = [v] for a key the dict does not hold yet
DictCreate(dict, k, v) ==
    [keys |-> Append(dict.keys, k),
     vals |-> [y \in Range(dict.keys) \cup {k} |->
                  IF y = k THEN <<v>> ELSE dict.vals[y]]]

\* the body of the loop over the earthquakes
GroupStep(year_dict, quake) ==
    LET magnitude == get_magnitude(quake)
    IN  IF ~IsOk(magnitude) THEN magnitude
        ELSE IF HasKey(year_dict, get_year(quake))
        THEN Return(DictAppend(year_dict, get_year(quake), magnitude.value))
        ELSE Return(DictCreate(year_dict, get_year(quake), magnitude.value))

RECURSIVE GroupLoop(_, _, _)
GroupLoop(earthquakes, i, year_dict) ==
    IF i > Len(earthquakes) THEN Return(year_dict)
    ELSE LET step == GroupStep(year_dict, earthquakes[i])
         IN  IF IsOk(step) THEN GroupLoop(earthquakes, i + 1, step.value) ELSE step

\* get_magnitudes_per_year that starts from a dict holding an empty list for
\* every year from the first to the last year of the input
get_magnitudes_per_year_gaps(earthquakes) ==
    IF earthquakes = << >> THEN Return(EmptyDict)
    ELSE LET years == {get_year(earthquakes[i]) : i \in 1..Len(earthquakes)}
             lo == CHOOSE y \in years : \A z \in years : y <= z
             hi == CHOOSE y \in years : \A z \in years : z <= y
         IN  GroupLoop(earthquakes, 1,
                       [keys |-> [i \in 1..(hi - lo + 1) |-> lo + i - 1],
                        vals |-> [y \in lo..hi |-> << >>]])

get_magnitudes_per_year(earthquakes) == GroupLoop(earthquakes, 1, EmptyDict)

(* ------------------------------ the plots ------------------------------ *)

RECURSIVE Insert(_, _)
\* x put before the first element of the ascending sequence s that exceeds it
Insert(s, x) ==
    IF s = << >> THEN <<x>>
    ELSE IF x < Head(s) THEN <<x>> \o s
    ELSE <<Head(s)>> \o Insert(Tail(s), x)

\* no list.sort(): the list keeps the insertion order of the dict
SortAsc_none(s) == s

RECURSIVE SortAsc(_)
\* list.sort() on a list of integers
SortAsc(s) ==
    IF s = << >> THEN << >>
    ELSE Insert(SortAsc(SubSeq(s, 1, Len(s) - 1)), s[Len(s)])

RECURSIVE SumMags(_, _, _)
\* value = 0; for mag in mag_list: value += mag
SumMags(mag_list, i, value) ==
    IF i > Len(mag_list) THEN Return(value)
    ELSE IF ~IsNumber(mag_list[i]) THEN Raise("TypeError")
    ELSE SumMags(mag_list, i + 1, value + mag_list[i].value)

\* value / len(mag_list), kept as the exact quotient num/den
Average(mag_list) ==
    LET value == SumMags(mag_list, 1, 0)
    IN  IF IsOk(value)
        THEN Return([num |-> value.value, den |-> Len(mag_list)])
        ELSE value

RECURSIVE AvgLoop(_, _, _, _)
AvgLoop(dict, year_list, i, avg_list) ==
    IF i > Len(year_list) THEN Return(avg_list)
    ELSE LET avg == Average(dict.vals[year_list[i]])
         IN  IF IsOk(avg)
             THEN AvgLoop(dict, year_list, i + 1, Append(avg_list, avg.value))
             ELSE avg

\* the two lists plot_average_magnitude_per_year passes to plt.plot
plot_average_magnitude_per_year(earthquakes) ==
    LET dict == get_magnitudes_per_year(earthquakes)
    IN  IF ~IsOk(dict) THEN dict
        ELSE LET year_list == SortAsc(dict.value.keys)
                 avg_list == AvgLoop(dict.value, year_list, 1, << >>)
             IN  IF IsOk(avg_list)
                 THEN Return([year_list |-> year_list, avg_list |-> avg_list.value])
                 ELSE avg_list

\* plot_number_per_year that takes the counts in the order of the dict
plot_number_per_year_unsorted(earthquakes) ==
    LET dict == get_magnitudes_per_year(earthquakes)
    IN  IF ~IsOk(dict) THEN dict
        ELSE LET year_list == SortAsc(dict.value.keys)
                 num_list == [i \in 1..Len(dict.value.keys) |->
                                 Len(dict.value.vals[dict.value.keys[i]])]
             IN  Return([year_list |-> year_list, num_list |-> num_list])

\* the two lists plot_number_per_year passes to plt.bar and plt.plot
plot_number_per_year(earthquakes) ==
    LET dict == get_magnitudes_per_year(earthquakes)
    IN  IF ~IsOk(dict) THEN dict
        ELSE LET year_list == SortAsc(dict.value.keys)
                 num_list == [i \in 1..Len(year_list) |->
                                 Len(dict.value.vals[year_list[i]])]
             IN  Return([year_list |-> year_list, num_list |-> num_list])

(* --------------------------- the state machine ------------------------- *)

\* get_data has answered: data is the parsed response of the web service
Init ==
    /\ tz \in TimeZones
    /\ data \in Responses
    /\ op = "get_data"
    /\ result = Return(data)

CountEarthquakes ==
    /\ op' = "count_earthquakes"
    /\ result' = Return(count_earthquakes(data))
    /\ UNCHANGED <<tz, data>>

GetMaximum ==
    /\ op' = "get_maximum"
    /\ result' = get_maximum(data)
    /\ UNCHANGED <<tz, data>>

GetMagnitudesPerYear ==
    /\ op' = "get_magnitudes_per_year"
    /\ result' = get_magnitudes_per_year(data.features)
    /\ UNCHANGED <<tz, data>>

PlotAverageMagnitudePerYear ==
    /\ op' = "plot_average_magnitude_per_year"
    /\ result' = plot_average_magnitude_per_year(data.features)
    /\ UNCHANGED <<tz, data>>

PlotNumberPerYear ==
    /\ op' = "plot_number_per_year"
    /\ result' = plot_number_per_year(data.features)
    /\ UNCHANGED <<tz, data>>

Next ==
    \/ CountEarthquakes
    \/ GetMaximum
    \/ GetMagnitudesPerYear
    \/ PlotAverageMagnitudePerYear
    \/ PlotNumberPerYear

Spec == Init /\ [][Next]_vars

(* ------------------------ vocabulary of the claims --------------------- *)

features == data.features

HasNumericMag(q) ==
    "mag" \in DOMAIN q.properties /\ IsNumber(q.properties.mag)

AllNumeric(f) == \A i \in 1..Len(f) : HasNumericMag(f[i])

MagOf(q) == q.properties.mag.value

YearsOf(f) == {get_year(f[i]) : i \in 1..Len(f)}

\* the indices of the records of f that fall in year y
InYear(f, y) == {i \in 1..Len(f) : get_year(f[i]) = y}

\* how often the JSON value v occurs in the sequence s
Occurrences(s, v) == Cardinality({i \in 1..Len(s) : s[i] = v})

RECURSIVE SumSeq(_)
SumSeq(s) == IF s = << >> THEN 0 ELSE Head(s) + SumSeq(Tail(s))

\* the number of magnitudes held by all the lists of a grouping
TotalMagnitudes(dict) ==
    SumSeq([i \in 1..Len(dict.keys) |-> Len(dict.vals[dict.keys[i]])])

NoDuplicates(s) == \A i, j \in 1..Len(s) : s[i] = s[j] => i = j

StrictlyAscending(s) == \A i \in 1..(Len(s) - 1) : s[i] < s[i + 1]

IndexPermutations(n) == {p \in [1..n -> 1..n] : \A i, j \in 1..n : p[i] = p[j] => i = j}

Permuted(f, p) == [i \in 1..Len(f) |-> f[p[i]]]

SeqToBag(s) == [v \in Range(s) |-> Occurrences(s, v)]

\* the magnitudes of the records of year y, in the order of the input
YearSubsequence(f, y) ==
    LET sel == SelectSeq(f, LAMBDA q : get_year(q) = y)
    IN  [i \in 1..Len(sel) |-> sel[i].properties.mag]

(* ------------------------------- claims -------------------------------- *)

\* C1: for every non-empty collection of records with numeric magnitudes,
\* get_maximum returns a pair whose magnitude is the maximum of the
\* magnitudes of all the records: no record exceeds it and some record has it.
C1_MaxMagnitude ==
    (op = "get_maximum" /\ features # << >> /\ AllNumeric(features)) =>
        /\ IsOk(result)
        /\ \A i \in 1..Len(features) : MagOf(features[i]) <= result.value.magnitude.value
        /\ \E i \in 1..Len(features) : MagOf(features[i]) = result.value.magnitude.value

\* the strict maximum sits in the middle of three records
C1_Witness ==
    /\ op = "get_maximum"
    /\ Len(features) = 3
    /\ AllNumeric(features)
    /\ MagOf(features[1]) < MagOf(features[2])
    /\ MagOf(features[3]) < MagOf(features[2])
    /\ IsOk(result)
    /\ result.value.magnitude = Num(2)

\* C2: the location get_maximum returns is the location of the lowest-index
\* record whose magnitude equals the returned magnitude, so among records
\* that share the maximum the first in input order wins.
C2_FirstOfTies ==
    (op = "get_maximum" /\ IsOk(result)) =>
        \E k \in 1..Len(features) :
            /\ features[k].properties.mag = result.value.magnitude
            /\ \A j \in 1..(k - 1) : features[j].properties.mag # result.value.magnitude
            /\ result.value.location = get_location(features[k])

\* the second and third record share the maximum and lie at different places
C2_Witness ==
    /\ op = "get_maximum"
    /\ Len(features) = 3
    /\ AllNumeric(features)
    /\ MagOf(features[1]) < MagOf(features[2])
    /\ MagOf(features[3]) = MagOf(features[2])
    /\ get_location(features[2]) # get_location(features[3])
    /\ IsOk(result)
    /\ result.value.location = get_location(features[2])

C4_KeysAreYears ==
    (op = "get_magnitudes_per_year" /\ IsOk(result)) =>
        /\ Range(result.value.keys) = YearsOf(features)
        /\ DOMAIN result.value.vals = YearsOf(features)
        /\ \A y \in DOMAIN result.value.vals : result.value.vals[y] # << >>

\* records of 2000 and 2002 and none of 2001
C4_Witness ==
    /\ op = "get_magnitudes_per_year"
    /\ IsOk(result)
    /\ YearsOf(features) = {2000, 2002}
    /\ Range(result.value.keys) = {2000, 2002}

\* C5 (as claimed): plot_average_magnitude_per_year on zero records fails
\* instead of producing an empty series.
C5_EmptyGroupingFails ==
    (op = "plot_average_magnitude_per_year" /\ features = << >>) => ~IsOk(result)

\* C6: get_maximum on zero records ends in an error and returns no
\* (magnitude, location) pair.
C6_EmptyMaximumFails ==
    (op = "get_maximum" /\ features = << >>) => ~IsOk(result)

C6_Witness ==
    /\ op = "get_maximum"
    /\ features = << >>
    /\ result = Raise("IndexError")

\* C7 (as claimed): when some record has its magnitude absent or not a
\* number, get_magnitudes_per_year fails: it returns no grouping.
C7_MalformedRecordFails ==
    (op = "get_magnitudes_per_year" /\ ~AllNumeric(features)) => ~IsOk(result)

\* C8: the year sequence of plot_average_magnitude_per_year and of
\* plot_number_per_year is strictly ascending (hence free of duplicates) and
\* holds exactly the years of the input records, whatever their order.
C8_YearsAscending ==
    (op \in {"plot_average_magnitude_per_year", "plot_number_per_year"}
        /\ IsOk(result)) =>
        /\ StrictlyAscending(result.value.year_list)
        /\ Range(result.value.year_list) = YearsOf(features)

\* the input has a record of 2002 before one of 2000
C8_Witness ==
    /\ op = "plot_average_magnitude_per_year"
    /\ Len(features) = 3
    /\ get_year(features[1]) = 2002
    /\ get_year(features[2]) = 2000
    /\ IsOk(result)
    /\ result.value.year_list = <<2000, 2002>>

\* C9: the values of plot_number_per_year are aligned with its years: as
\* many values as years, the i-th value the number of input records of
\* the i-th year, and the values sum to the number of input records.
C9_CountsAligned ==
    (op = "plot_number_per_year" /\ IsOk(result)) =>
        /\ Len(result.value.num_list) = Len(result.value.year_list)
        /\ \A i \in 1..Len(result.value.year_list) :
              result.value.num_list[i] =
                  Cardinality(InYear(features, result.value.year_list[i]))
        /\ SumSeq(result.value.num_list) = Len(features)

\* two records of 2002 around one of 2000
C9_Witness ==
    /\ op = "plot_number_per_year"
    /\ Len(features) = 3
    /\ get_year(features[1]) = 2002
    /\ get_year(features[2]) = 2000
    /\ get_year(features[3]) = 2002
    /\ IsOk(result)
    /\ result.value.year_list = <<2000, 2002>>
    /\ result.value.num_list = <<1, 2>>

\* C10: get_magnitudes_per_year yields, for every permutation of its input,
\* the same set of years and for each year the same multiset of magnitudes;
\* and each year's list is the subsequence of the input made of that year's
\* records, in input order.
C10_OrderIndependent ==
    (op = "get_magnitudes_per_year" /\ IsOk(result)) =>
        /\ \A y \in Range(result.value.keys) :
              result.value.vals[y] = YearSubsequence(features, y)
        /\ \A p \in IndexPermutations(Len(features)) :
              LET other == get_magnitudes_per_year(Permuted(features, p))
              IN  /\ IsOk(other)
                  /\ Range(other.value.keys) = Range(result.value.keys)
                  /\ \A y \in Range(result.value.keys) :
                        SeqToBag(other.value.vals[y]) = SeqToBag(result.value.vals[y])

\* one year holds two different magnitudes, the larger one first
C10_Witness ==
    /\ op = "get_magnitudes_per_year"
    /\ IsOk(result)
    /\ Len(features) = 3
    /\ AllNumeric(features)
    /\ get_year(features[1]) = get_year(features[3])
    /\ get_year(features[2]) # get_year(features[1])
    /\ MagOf(features[1]) > MagOf(features[3])
    /\ result.value.vals[get_year(features[1])] = <<Num(2), Num(1)>>

====
